---- MODULE Spec2Model ----
(***************************************************************************)
(* Model of the booklite RAG utility (tools/rag): the two chunkers, and   *)
(* the indexers SpecsIndexer (embeddings + ChromaDB collection) and       *)
(* LiteSpecsIndexer (TF-IDF + pickled store).                             *)
(*                                                                         *)
(* Text is a sequence of one-character strings, so that Python's slicing, *)
(* split, strip and join are computed and not assumed.                    *)
(***************************************************************************)
EXTENDS Integers, Sequences, FiniteSets, TLC

(* ------------------------------ bounds -------------------------------- *)
\* longest token sequence handed to the token-windowed chunker
MaxTokens == 5
\* largest chunk_size tried by the token-windowed chunker
MaxChunkTokens == 4

(* ------------------------- Python primitives -------------------------- *)
Min(a, b) == IF a < b THEN a ELSE b

\* s[a:b] for 0 <= a, 0 <= b (0-based, end exclusive, clamped to len(s))
Slice(s, a, b) == SubSeq(s, a + 1, Min(b, Len(s)))

\* s[a:]
SliceFrom(s, a) == SubSeq(s, a + 1, Len(s))

\* all sequences over S of length 0..n
SeqsUpTo(S, n) == UNION {[1..k -> S] : k \in 0..n}

(* ===================== token-windowed chunk_content =================== *)
(* SpecsIndexer.chunk_content, one loop iteration per step.  The state is *)
(* the local state of the call: the encoded tokens, the loop variable i   *)
(* and the list of windows emitted so far (before decoding).              *)
VARIABLES tokens, tw_size, tw_overlap, tw_i, tw_chunks, tw_pc

varsTW == <<tokens, tw_size, tw_overlap, tw_i, tw_chunks, tw_pc>>

TokenAlphabet == {"t", "u"}

\* the step of range(0, len(tokens), chunk_size - overlap), forgetting the overlap
NextOffsetNoOverlap(i, chunk_size, overlap) == i + chunk_size

\* the next value of i in range(0, len(tokens), chunk_size - overlap)
NextOffset(i, chunk_size, overlap) == i + (chunk_size - overlap)

\* a plausible slip: the loop also runs for i = len(tokens)
InRangeInclusive(i, stop) == i <= stop

\* whether range(0, stop, step) yields i, for an i the steps reach
InRange(i, stop) == i < stop

\* chunk_tokens = tokens[i:i + chunk_size]
WindowAt(toks, i, chunk_size) == Slice(toks, i, i + chunk_size)

InitTW ==
    /\ tokens \in SeqsUpTo(TokenAlphabet, MaxTokens)
    /\ tw_size \in 1..MaxChunkTokens
    /\ tw_overlap \in 0..(tw_size - 1)
    /\ tw_i = 0
    /\ tw_chunks = << >>
    /\ tw_pc = "loop"

\* one iteration of the for loop: i < len(tokens)
TokenWindowStep ==
    /\ tw_pc = "loop"
    /\ InRange(tw_i, Len(tokens))
    /\ tw_chunks' = Append(tw_chunks, WindowAt(tokens, tw_i, tw_size))
    /\ tw_i' = NextOffset(tw_i, tw_size, tw_overlap)
    /\ UNCHANGED <<tokens, tw_size, tw_overlap, tw_pc>>

\* the range is exhausted: return chunks
TokenWindowReturn ==
    /\ tw_pc = "loop"
    /\ ~InRange(tw_i, Len(tokens))
    /\ tw_pc' = "done"
    /\ UNCHANGED <<tokens, tw_size, tw_overlap, tw_i, tw_chunks>>

(* --------------- properties of the token-windowed chunker ------------- *)
\* the offset (0-based) at which the k-th emitted window (k = 1, 2, ...) starts
OffsetOf(k) == (k - 1) * (tw_size - tw_overlap)

\* the token positions (1-based) the k-th emitted window holds
PositionsOf(k) == (OffsetOf(k) + 1)..(OffsetOf(k) + Len(tw_chunks[k]))

\* the first window whole, then every later window without its first `o` tokens
RECURSIVE DropOverlapConcat(_, _, _)
DropOverlapConcat(ws, k, o) ==
    IF k > Len(ws) THEN << >>
    ELSE (IF k = 1 THEN ws[k] ELSE SliceFrom(ws[k], o)) \o DropOverlapConcat(ws, k + 1, o)

\* C1: the windows are tokens[i : i+S] for i = 0, S-O, 2(S-O), ... < len(tokens),
\* every token position lies in some window, and the first window followed by
\* each later window minus its first O tokens is the token sequence again.
C1_WindowsReconstructTokens ==
    tw_pc = "done" =>
        LET n == Len(tokens)
            step == tw_size - tw_overlap
        IN /\ Len(tw_chunks) = (n + step - 1) \div step
           /\ \A k \in 1..Len(tw_chunks) :
                 tw_chunks[k] = [j \in 1..Min(tw_size, n - OffsetOf(k)) |-> tokens[OffsetOf(k) + j]]
           /\ \A p \in 1..n : \E k \in 1..Len(tw_chunks) : p \in PositionsOf(k)
           /\ DropOverlapConcat(tw_chunks, 1, tw_overlap) = tokens

\* a finished call with overlap, at least three windows and a short last window
C1_Witness ==
    /\ tw_pc = "done"
    /\ tw_overlap >= 1
    /\ Len(tw_chunks) >= 3
    /\ Len(tw_chunks[Len(tw_chunks)]) < tw_size

\* C2: a non-empty text of at most S tokens yields exactly one chunk.
C2_ShortTextOneChunk ==
    (tw_pc = "done" /\ Len(tokens) >= 1 /\ Len(tokens) <= tw_size) => Len(tw_chunks) = 1

\* C3: every window other than the first and the last shares exactly O token
\* positions with the window emitted just before it.
C3_InnerWindowsShareOverlap ==
    tw_pc = "done" =>
        \A k \in 2..(Len(tw_chunks) - 1) :
            Cardinality(PositionsOf(k) \cap PositionsOf(k - 1)) = tw_overlap

(* ===================== paragraph-packing chunk_content ================ *)
(* LiteSpecsIndexer.chunk_content, one paragraph of the for loop per step. *)
(* pp_via is a history variable: for every emitted chunk, the branch that *)
(* appended it ("flush" or "split").                                      *)
VARIABLES content, pp_size, paragraphs, pp_next, current_chunk, pp_chunks, pp_via, pp_pc

varsPP == <<content, pp_size, paragraphs, pp_next, current_chunk, pp_chunks, pp_via, pp_pc>>

NL == "\n"

CharAlphabet == {"a", " ", NL}

\* str.isspace for one character
IsSpace(c) == c \in {" ", NL}

\* index of the first "\n\n" in s (1-based), 0 when there is none
FirstBlankLine(s) ==
    LET hits == {i \in 1..(Len(s) - 1) : s[i] = NL /\ s[i + 1] = NL}
    IN IF hits = {} THEN 0 ELSE CHOOSE i \in hits : \A j \in hits : i <= j

\* content.split('\n\n')
RECURSIVE SplitParagraphs(_)
SplitParagraphs(s) ==
    LET i == FirstBlankLine(s)
    IN IF i = 0 THEN <<s>>
       ELSE <<SubSeq(s, 1, i - 1)>> \o SplitParagraphs(SubSeq(s, i + 2, Len(s)))

RECURSIVE LStrip(_)
LStrip(s) == IF s # << >> /\ IsSpace(Head(s)) THEN LStrip(Tail(s)) ELSE s

RECURSIVE RStrip(_)
RStrip(s) ==
    IF s # << >> /\ IsSpace(s[Len(s)]) THEN RStrip(SubSeq(s, 1, Len(s) - 1)) ELSE s

\* s.strip()
Strip(s) == RStrip(LStrip(s))

\* length of the longest prefix of s without whitespace
RECURSIVE WordLen(_)
WordLen(s) == IF s = << >> \/ IsSpace(Head(s)) THEN 0 ELSE 1 + WordLen(Tail(s))

\* s.split(): the whitespace-delimited words of s
RECURSIVE SplitWords(_)
SplitWords(s) ==
    LET t == LStrip(s)
    IN IF t = << >> THEN << >>
       ELSE <<SubSeq(t, 1, WordLen(t))>> \o SplitWords(SubSeq(t, WordLen(t) + 1, Len(t)))

\* ' '.join(ws)
RECURSIVE JoinWords(_)
JoinWords(ws) ==
    IF ws = << >> THEN << >>
    ELSE IF Len(ws) = 1 THEN ws[1]
    ELSE ws[1] \o <<" ">> \o JoinWords(Tail(ws))

\* for i in range(i, len(words), n): ' '.join(words[i:i + n]), n = chunk_size // 5
RECURSIVE WordChunks(_, _, _)
WordChunks(words, i, n) ==
    IF i >= Len(words) THEN << >>
    ELSE <<JoinWords(Slice(words, i, i + n))>> \o WordChunks(words, i + n, n)

\* the test that sends a paragraph to the running chunk
Fits(cur, paragraph, chunk_size) == Len(cur) + Len(paragraph) + 2 <= chunk_size

\* the divisor of chunk_size // 5, the number of words of a fallback sub-chunk
WordsDivisor == 5
\* chunk_size // 5 is the step of a range(): it must not be 0
MinPackSize == WordsDivisor
\* largest chunk_size tried by the paragraph-packing chunker
MaxPackSize == 5
\* longest text handed to the paragraph-packing chunker
MaxContentLen == 9
\* the length of the text given to both chunkers at once
MaxInputLen == 6

InitPP ==
    /\ content \in SeqsUpTo(CharAlphabet, MaxContentLen)
    /\ pp_size \in MinPackSize..MaxPackSize
    /\ paragraphs = SplitParagraphs(content)
    /\ pp_next = 1
    /\ current_chunk = << >>
    /\ pp_chunks = << >>
    /\ pp_via = << >>
    /\ pp_pc = "loop"

\* the paragraph fits: it joins the running chunk
PackParagraph ==
    /\ pp_pc = "loop"
    /\ pp_next <= Len(paragraphs)
    /\ Fits(current_chunk, paragraphs[pp_next], pp_size)
    /\ current_chunk' = IF current_chunk # << >>
                           THEN current_chunk \o <<NL, NL>> \o paragraphs[pp_next]
                           ELSE paragraphs[pp_next]
    /\ pp_next' = pp_next + 1
    /\ UNCHANGED <<content, pp_size, paragraphs, pp_chunks, pp_via, pp_pc>>

\* it does not fit and a running chunk exists: flush it, the paragraph starts the next
FlushAndStart ==
    /\ pp_pc = "loop"
    /\ pp_next <= Len(paragraphs)
    /\ ~Fits(current_chunk, paragraphs[pp_next], pp_size)
    /\ current_chunk # << >>
    /\ pp_chunks' = Append(pp_chunks, Strip(current_chunk))
    /\ pp_via' = Append(pp_via, "flush")
    /\ current_chunk' = paragraphs[pp_next]
    /\ pp_next' = pp_next + 1
    /\ UNCHANGED <<content, pp_size, paragraphs, pp_pc>>

\* it does not fit and there is no running chunk: split the paragraph by words
SplitOversized ==
    /\ pp_pc = "loop"
    /\ pp_next <= Len(paragraphs)
    /\ ~Fits(current_chunk, paragraphs[pp_next], pp_size)
    /\ current_chunk = << >>
    /\ LET subs == WordChunks(SplitWords(paragraphs[pp_next]), 0, pp_size \div WordsDivisor)
       IN /\ pp_chunks' = pp_chunks \o subs
          /\ pp_via' = pp_via \o [k \in 1..Len(subs) |-> "split"]
    /\ pp_next' = pp_next + 1
    /\ UNCHANGED <<content, pp_size, paragraphs, current_chunk, pp_pc>>

\* after the loop: the last running chunk is flushed, chunks is returned
PackReturn ==
    /\ pp_pc = "loop"
    /\ pp_next > Len(paragraphs)
    /\ pp_chunks' = IF current_chunk # << >>
                       THEN Append(pp_chunks, Strip(current_chunk)) ELSE pp_chunks
    /\ pp_via' = IF current_chunk # << >> THEN Append(pp_via, "flush") ELSE pp_via
    /\ pp_pc' = "done"
    /\ UNCHANGED <<content, pp_size, paragraphs, pp_next, current_chunk>>

(* ------------- the two chunkers as functions of their input ----------- *)
\* LiteSpecsIndexer.chunk_content: the loop over paragraphs k.. and the last flush
RECURSIVE PackLoop(_, _, _, _, _)
PackLoop(paras, k, cur, chunks, chunk_size) ==
    IF k > Len(paras)
    THEN (IF cur # << >> THEN Append(chunks, Strip(cur)) ELSE chunks)
    ELSE IF Fits(cur, paras[k], chunk_size)
    THEN PackLoop(paras, k + 1,
                  IF cur # << >> THEN cur \o <<NL, NL>> \o paras[k] ELSE paras[k],
                  chunks, chunk_size)
    ELSE IF cur # << >>
    THEN PackLoop(paras, k + 1, paras[k], Append(chunks, Strip(cur)), chunk_size)
    ELSE PackLoop(paras, k + 1, cur,
                  chunks \o WordChunks(SplitWords(paras[k]), 0, chunk_size \div WordsDivisor),
                  chunk_size)

ChunkContentLite(text, chunk_size) ==
    PackLoop(SplitParagraphs(text), 1, << >>, << >>, chunk_size)

\* SpecsIndexer.chunk_content's loop from offset i on: the windows of tokens
RECURSIVE TokenWindows(_, _, _, _)
TokenWindows(toks, i, chunk_size, overlap) ==
    IF ~InRange(i, Len(toks)) THEN << >>
    ELSE <<WindowAt(toks, i, chunk_size)>>
         \o TokenWindows(toks, NextOffset(i, chunk_size, overlap), chunk_size, overlap)

\* stand-in for tiktoken's encode: a token is two characters (the last may be one)
Encode(text) ==
    [k \in 1..((Len(text) + 1) \div 2) |-> SubSeq(text, 2 * k - 1, Min(2 * k, Len(text)))]

\* stand-in for tiktoken's decode: the tokens' characters, concatenated
RECURSIVE Decode(_)
Decode(toks) == IF toks = << >> THEN << >> ELSE Head(toks) \o Decode(Tail(toks))

ChunkContentTokens(text, chunk_size, overlap) ==
    LET ws == TokenWindows(Encode(text), 0, chunk_size, overlap)
    IN [k \in 1..Len(ws) |-> Decode(ws[k])]

(* -------------- properties of the paragraph-packing chunker ----------- *)
\* C4: every chunk that the word-split fallback did not produce is at most
\* chunk_size characters long.
C4_PackedChunksWithinSize ==
    \A k \in 1..Len(pp_chunks) : pp_via[k] = "flush" => Len(pp_chunks[k]) <= pp_size

\* the stepwise loop and the function ChunkContentLite compute the same chunks
PackLoopAgrees == pp_pc = "done" => pp_chunks = ChunkContentLite(content, pp_size)

\* likewise for the token windows
TokenWindowsAgree ==
    tw_pc = "done" => tw_chunks = TokenWindows(tokens, 0, tw_size, tw_overlap)

(* ============================== the indexers ========================== *)
(* SpecsIndexer (variant "embed") and LiteSpecsIndexer (variant "lite")   *)
(* over a corpus of markdown files.  A deployment runs one variant.       *)
(* index_all is modelled file by file.  History variables: succeeded,     *)
(* escaped, reported, runs, last, prev (the last three are recorded while *)
(* history is set).                                                       *)
VARIABLES
    variant,        \* "lite" or "embed"
    corpus,         \* the files under specs_dir as the latest index_all found them
    md_files,       \* list(self.specs_dir.rglob("*.md")) of the latest run
    file_next,      \* position of the for loop in md_files
    ix_pc,          \* "idle", "files" (inside the for loop), "returned"
    documents,      \* lite: self.documents
    metadata,       \* lite: self.metadata
    tfidf_matrix,   \* lite: self.tfidf_matrix (none, or the documents it was fitted on)
    is_indexed,     \* lite: self.is_indexed
    store,          \* lite: the pickle file at db_path
    collection,     \* embed: the persistent ChromaDB collection "booklite_specs"
    reported,       \* the file count printed at completion of the latest run, -1: none
    succeeded,      \* paths whose index_file returned normally in the latest run
    escaped,        \* an exception left the latest index_all
    runs,           \* index_all calls that have returned (counted up to MaxRunsCounted)
    last,           \* corpus and index entries at the return of the latest run
    prev,           \* corpus and index entries at the return of the run before it
    history         \* whether runs, last and prev are recorded

varsIX == <<variant, corpus, md_files, file_next, ix_pc, documents, metadata,
            tfidf_matrix, is_indexed, store, collection, reported, succeeded,
            escaped, runs, last, prev, history>>

\* stand-ins for the defaults chunk_size=1000, overlap=200 and the preview length 200
DefaultChunkSize == 5
DefaultOverlap == 1
PreviewLen == 2
\* runs is counted up to this value
MaxRunsCounted == 2

Untitled == <<"U", "n", "t", "i", "t", "l", "e", "d">>
Ellipsis == <<".", ".", ".">>
DotMd == <<".", "m", "d">>

\* the relative paths a corpus may hold; both files are named a.md
Paths == { <<"a">> \o DotMd, <<"d", "/", "a">> \o DotMd }

\* the texts a readable file may hold
TextEmpty == << >>
TextTitled == <<"#", " ", "t", NL, NL, "a", "a", "a">>
TextLong == <<"a", "a", "a", NL, NL, "b", "b", "b", NL, NL, "c", "c", "c">>
Texts == {TextEmpty, TextTitled, TextLong}

\* a file is absent, unreadable ("bad": open/read/parse raises) or readable
FileStates ==
    {[kind |-> "absent", text |-> << >>], [kind |-> "bad", text |-> << >>]}
    \cup {[kind |-> "ok", text |-> t] : t \in Texts}

Corpora == [Paths -> FileStates]

\* the exceptions reading or parsing a file raises; all derive from Exception
ReadErrors == {"OSError", "UnicodeDecodeError"}

\* the orders in which rglob may list the files S
Orders(S) ==
    {o \in [1..Cardinality(S) -> S] : \A i, j \in 1..Cardinality(S) : i # j => o[i] # o[j]}

(* ---------------------- extract_markdown_content ---------------------- *)
\* text.split('\n')
RECURSIVE SplitLines(_)
SplitLines(s) ==
    LET hits == {i \in 1..Len(s) : s[i] = NL}
    IN IF hits = {} THEN <<s>>
       ELSE LET i == CHOOSE i \in hits : \A j \in hits : i <= j
            IN <<SubSeq(s, 1, i - 1)>> \o SplitLines(SubSeq(s, i + 1, Len(s)))

RECURSIVE LeadingHashes(_)
LeadingHashes(line) ==
    IF line # << >> /\ Head(line) = "#" THEN 1 + LeadingHashes(Tail(line)) ELSE 0

\* the heading elements of the parsed document: lines "#..# title" (stand-in for
\* markdown.markdown + soup.find_all(['h1', ..., 'h6']))
RECURSIVE HeadingsOf(_)
HeadingsOf(lines) ==
    IF lines = << >> THEN << >>
    ELSE LET h == Min(LeadingHashes(Head(lines)), 6)
         IN (IF h >= 1
             THEN <<[level |-> h, title |-> Strip(SliceFrom(Head(lines), h)), content |-> << >>]>>
             ELSE << >>) \o HeadingsOf(Tail(lines))

\* _extract_sections: one record per heading, in document order
ExtractSections(text) == HeadingsOf(SplitLines(text))

\* _extract_title: the first h1, else "Untitled"
ExtractTitle(text) ==
    LET h1 == SelectSeq(ExtractSections(text), LAMBDA h : h.level = 1)
    IN IF h1 # << >> THEN h1[1].title ELSE Untitled

\* Path.name: the part after the last "/"
RECURSIVE FileName(_)
FileName(path) ==
    LET hits == {i \in 1..Len(path) : path[i] = "/"}
    IN IF hits = {} THEN path
       ELSE FileName(SubSeq(path, (CHOOSE i \in hits : \A j \in hits : i <= j) + 1, Len(path)))

\* hashlib.md5(content.encode()).hexdigest(), taken to be free of collisions
Md5(text) == <<"md5:">> \o text

\* the "metadata" of extract_markdown_content
DocMetadata(path, text) ==
    [file_path |-> path, file_name |-> FileName(path), file_size |-> Len(text),
     hash |-> Md5(text), title |-> ExtractTitle(text), sections |-> ExtractSections(text)]

(* ------------------------------ index_file ---------------------------- *)
\* str(n) for n >= 0
RECURSIVE Str(_)
Str(n) ==
    LET digit(d) == <<"0", "1", "2", "3", "4", "5", "6", "7", "8", "9">>[d + 1]
    IN IF n < 10 THEN <<digit(n)>> ELSE Str(n \div 10) \o <<digit(n % 10)>>

\* chunk[:200] + "..." if len(chunk) > 200 else chunk
ChunkPreview(chunk) ==
    IF Len(chunk) > PreviewLen THEN Slice(chunk, 0, PreviewLen) \o Ellipsis ELSE chunk

\* doc_data["metadata"].copy() updated with chunk_index, chunk_total, chunk_preview
ChunkMetadata(doc, i, total, chunk) ==
    [file_path |-> doc.file_path, file_name |-> doc.file_name, file_size |-> doc.file_size,
     hash |-> doc.hash, title |-> doc.title, sections |-> doc.sections,
     chunk_index |-> i, chunk_total |-> total, chunk_preview |-> ChunkPreview(chunk)]

\* a plausible slip: the id built from the file name, not the relative path
ChunkIdFromName(doc, i) == doc.file_name \o <<"_">> \o Str(i)

\* f"{doc_data['metadata']['file_path']}_{i}"
ChunkId(doc, i) == doc.file_path \o <<"_">> \o Str(i)

\* self.chunk_content(doc_data["content"]) with the defaults, per variant
FileChunks(v, text) ==
    IF v = "lite" THEN ChunkContentLite(text, DefaultChunkSize)
    ELSE ChunkContentTokens(text, DefaultChunkSize, DefaultOverlap)

\* what index_file submits for one file: (id, document, metadata) per chunk, i = 0, 1, ...
FileEntries(v, path, text) ==
    LET doc == DocMetadata(path, text)
        chunks == FileChunks(v, text)
    IN [k \in 1..Len(chunks) |->
          [id |-> ChunkId(doc, k - 1),
           document |-> chunks[k],
           metadata |-> ChunkMetadata(doc, k - 1, Len(chunks), chunks[k])]]

\* collection.add rejects a batch with an id that repeats or is already stored
AddRejects(coll, entries) ==
    \/ \E j, k \in 1..Len(entries) : j # k /\ entries[j].id = entries[k].id
    \/ \E j \in 1..Len(entries), k \in 1..Len(coll) : entries[j].id = coll[k].id

\* a plausible slip: a handler for OSError only
CatchesOSErrorOnly(exc) == exc = "OSError"

\* "except Exception": the handler of the for loop catches every error of a file
Catches(exc) == exc \in ReadErrors \cup {"ValueError", "DuplicateIDError"}

(* ------------------------------- index_all ---------------------------- *)
\* self.tfidf_matrix = None
NoMatrix == [none |-> TRUE, rows |-> << >>]

\* vectorizer.fit_transform(documents): one row per document, here the document itself
FitTransform(docs) == [none |-> FALSE, rows |-> docs]

\* no pickle file at db_path
NoStore ==
    [exists |-> FALSE, documents |-> << >>, metadata |-> << >>,
     tfidf_matrix |-> NoMatrix, is_indexed |-> FALSE]

\* a plausible slip: the lists are not reset, a rebuild appends to them
KeptDocuments(docs) == docs

\* "Clear existing data": self.documents = [], self.metadata = []
ClearedDocuments(docs) == << >>

\* "Clear existing collection": delete_collection, then get_or_create_collection
RecreatedCollection(coll) == << >>

\* a plausible slip: only the files that succeeded are counted
SucceededCount(files, succ) == Cardinality(succ)

\* the count of "Indexing complete! Processed {len(md_files)} files."
ReportedCount(files, succ) == Len(files)

\* the files rglob("*.md") finds in corpus c
Present(c) == {p \in Paths : c[p].kind # "absent"}

\* the index as (id, document, metadata) entries; the lite variant stores no id,
\* a chunk's identity there is {file_path}_{chunk_index} of its metadata
EntriesOf(v, docs, metas, coll) ==
    IF v = "lite"
    THEN [k \in 1..Len(docs) |->
            [id |-> ChunkId(metas[k], metas[k].chunk_index),
             document |-> docs[k], metadata |-> metas[k]]]
    ELSE coll

IndexEntries == EntriesOf(variant, documents, metadata, collection)

CountRun == IF history THEN Min(runs + 1, MaxRunsCounted) ELSE runs

\* the record kept of a run that returns with corpus c and index entries e
RecordLast(c, e) == IF history THEN [corpus |-> c, entries |-> e] ELSE last

\* the record kept of the run before it
RecordPrev == IF history THEN last ELSE prev

EmptyCorpus == [p \in Paths |-> [kind |-> "absent", text |-> << >>]]

InitIX ==
    /\ variant \in {"lite", "embed"}
    /\ corpus = EmptyCorpus
    /\ md_files = << >>
    /\ file_next = 1
    /\ ix_pc = "idle"
    /\ documents = << >>
    /\ metadata = << >>
    /\ tfidf_matrix = NoMatrix
    /\ is_indexed = FALSE
    /\ store = NoStore
    /\ collection = << >>
    /\ reported = -1
    /\ succeeded = {}
    /\ escaped = FALSE
    /\ runs = 0
    /\ last = [corpus |-> EmptyCorpus, entries |-> << >>]
    /\ prev = [corpus |-> EmptyCorpus, entries |-> << >>]

\* index_all on a corpus without markdown files: clear, find nothing, return
IndexAllNoFiles ==
    /\ ix_pc \in {"idle", "returned"}
    /\ \E c \in Corpora :
          /\ Present(c) = {}
          /\ corpus' = c
    /\ md_files' = << >>
    /\ file_next' = 1
    /\ documents' = (IF variant = "lite" THEN ClearedDocuments(documents) ELSE documents)
    /\ metadata' = (IF variant = "lite" THEN ClearedDocuments(metadata) ELSE metadata)
    /\ collection' = (IF variant = "embed" THEN RecreatedCollection(collection) ELSE collection)
    /\ reported' = -1
    /\ succeeded' = {}
    /\ escaped' = FALSE
    /\ ix_pc' = "returned"
    /\ runs' = CountRun
    /\ prev' = RecordPrev
    /\ last' = RecordLast(corpus', EntriesOf(variant, documents', metadata', collection'))
    /\ UNCHANGED <<history, variant, tfidf_matrix, is_indexed, store>>

\* index_all on a corpus with markdown files: clear, list the files, enter the loop
IndexAllBegin ==
    /\ ix_pc \in {"idle", "returned"}
    /\ \E c \in Corpora :
          /\ Present(c) # {}
          /\ corpus' = c
          /\ md_files' \in Orders(Present(c))
    /\ file_next' = 1
    /\ documents' = (IF variant = "lite" THEN ClearedDocuments(documents) ELSE documents)
    /\ metadata' = (IF variant = "lite" THEN ClearedDocuments(metadata) ELSE metadata)
    /\ collection' = (IF variant = "embed" THEN RecreatedCollection(collection) ELSE collection)
    /\ reported' = -1
    /\ succeeded' = {}
    /\ escaped' = FALSE
    /\ ix_pc' = "files"
    /\ prev' = RecordPrev
    /\ UNCHANGED <<history, variant, tfidf_matrix, is_indexed, store, runs, last>>

\* index_file raised exc inside the try: the handler logs it and the loop goes on;
\* an exception the handler does not catch leaves index_all
FileError(exc) ==
    IF Catches(exc)
    THEN /\ file_next' = file_next + 1
         /\ UNCHANGED <<ix_pc, escaped, runs, last>>
    ELSE /\ ix_pc' = "returned"
         /\ escaped' = TRUE
         /\ runs' = CountRun
         /\ last' = RecordLast(corpus, IndexEntries)
         /\ UNCHANGED file_next

\* the next file cannot be read or parsed: extract_markdown_content raises
IndexFileUnreadable ==
    /\ ix_pc = "files"
    /\ file_next <= Len(md_files)
    /\ corpus[md_files[file_next]].kind = "bad"
    /\ \E exc \in ReadErrors : FileError(exc)
    /\ UNCHANGED <<history, variant, corpus, md_files, documents, metadata, tfidf_matrix,
                   is_indexed, store, collection, reported, succeeded, prev>>

\* LiteSpecsIndexer.index_file on a readable file: append every chunk and its metadata
IndexFileLite ==
    /\ ix_pc = "files"
    /\ variant = "lite"
    /\ file_next <= Len(md_files)
    /\ corpus[md_files[file_next]].kind = "ok"
    /\ LET path == md_files[file_next]
           entries == FileEntries("lite", path, corpus[path].text)
       IN /\ documents' = documents \o [k \in 1..Len(entries) |-> entries[k].document]
          /\ metadata' = metadata \o [k \in 1..Len(entries) |-> entries[k].metadata]
          /\ succeeded' = succeeded \cup {path}
    /\ file_next' = file_next + 1
    /\ UNCHANGED <<history, variant, corpus, md_files, ix_pc, tfidf_matrix, is_indexed, store,
                   collection, reported, escaped, runs, last, prev>>

\* SpecsIndexer.index_file on a readable file: one collection.add of all its chunks.
\* Whether add raises on empty lists depends on the ChromaDB version: both are allowed.
IndexFileEmbed ==
    /\ ix_pc = "files"
    /\ variant = "embed"
    /\ file_next <= Len(md_files)
    /\ corpus[md_files[file_next]].kind = "ok"
    /\ LET path == md_files[file_next]
           entries == FileEntries("embed", path, corpus[path].text)
       IN \/ /\ entries = << >>
             /\ FileError("ValueError")
             /\ UNCHANGED <<collection, succeeded>>
          \/ /\ entries # << >>
             /\ AddRejects(collection, entries)
             /\ FileError("DuplicateIDError")
             /\ UNCHANGED <<collection, succeeded>>
          \/ /\ ~AddRejects(collection, entries)
             /\ collection' = collection \o entries
             /\ succeeded' = succeeded \cup {path}
             /\ file_next' = file_next + 1
             /\ UNCHANGED <<ix_pc, escaped, runs, last>>
    /\ UNCHANGED <<history, variant, corpus, md_files, documents, metadata, tfidf_matrix,
                   is_indexed, store, reported, prev>>

\* after the loop: fit the TF-IDF matrix if there are documents (lite), report, save (lite)
IndexAllFinish ==
    /\ ix_pc = "files"
    /\ file_next > Len(md_files)
    /\ tfidf_matrix' = (IF variant = "lite" /\ documents # << >>
                           THEN FitTransform(documents) ELSE tfidf_matrix)
    /\ is_indexed' = (IF variant = "lite" /\ documents # << >> THEN TRUE ELSE is_indexed)
    /\ reported' = ReportedCount(md_files, succeeded)
    /\ store' = (IF variant = "lite"
                    THEN [exists |-> TRUE, documents |-> documents, metadata |-> metadata,
                          tfidf_matrix |-> tfidf_matrix', is_indexed |-> is_indexed']
                    ELSE store)
    /\ ix_pc' = "returned"
    /\ runs' = CountRun
    /\ last' = RecordLast(corpus, IndexEntries)
    /\ UNCHANGED <<history, variant, corpus, md_files, file_next, documents, metadata, collection,
                   succeeded, escaped, prev>>

\* a new process constructs the indexer on the same db_path: __init__
NewProcess ==
    /\ ix_pc = "returned"
    /\ documents' = << >>
    /\ metadata' = << >>
    /\ tfidf_matrix' = NoMatrix
    /\ is_indexed' = FALSE
    /\ ix_pc' = "idle"
    /\ UNCHANGED <<history, variant, corpus, md_files, file_next, store, collection, reported,
                   succeeded, escaped, runs, last, prev>>

(* ------------------------------ searching ----------------------------- *)
(* LiteSpecsIndexer.search on the indexer of the running process, and the *)
(* query objects LiteSpecsQuery and SpecsQuery, which open the index that *)
(* is on disk.  A call's arguments and outcome are kept until the caller  *)
(* has taken them (Forget).                                               *)
VARIABLES
    q_pc,           \* "none", "indexer" (LiteSpecsIndexer.search), "query", "context"
    query,          \* the query of the latest call
    n_results,      \* its n_results
    file_filter,    \* its file_filter, << >> for None or ""
    max_tokens,     \* the budget of the latest get_context_for_generation
    raised,         \* "none", or the exception that left the call
    results,        \* the list search returned; for a context, the candidates
    unfiltered,     \* the list the same search returns without file_filter
    context         \* the string get_context_for_generation returned

varsQ == <<q_pc, query, n_results, file_filter, max_tokens, raised, results,
           unfiltered, context>>

vars == <<varsTW, varsPP, varsIX, varsQ>>

\* n_results is drawn from 0..MaxResults
MaxResults == 2
\* get_context_for_generation asks search for this many candidates
ContextResults == 10
\* the header's rule is "=" * 50
RuleLen == 50

Queries == { << >>, <<"a", "a", "b">> }
Filters == { << >>, <<"d", "/">> }
Budgets == {0, 100, 150, 160, 220, 400}

\* s[::-1]
Reverse(s) == [k \in 1..Len(s) |-> s[Len(s) + 1 - k]]

\* "sub in s" for strings
Contains(sub, s) ==
    \E a \in 0..(Len(s) - Len(sub)) : SubSeq(s, a + 1, a + Len(sub)) = sub

\* stand-in for the score of a document against a query (cosine similarity of
\* TF-IDF vectors, closeness of embeddings): the characters of the query, other
\* than spaces, that occur in the document; the empty query scores 0 everywhere
Score(q, doc) ==
    Cardinality({k \in 1..Len(q) : ~IsSpace(q[k]) /\ \E j \in 1..Len(doc) : doc[j] = q[k]})

\* the fields of a LiteSpecsIndexer that load() sets
Memory == [documents |-> documents, metadata |-> metadata,
           tfidf_matrix |-> tfidf_matrix, is_indexed |-> is_indexed]

\* the fields after __init__
FreshMemory == [documents |-> << >>, metadata |-> << >>,
                tfidf_matrix |-> NoMatrix, is_indexed |-> FALSE]

\* load(): nothing without a pickle file, else the five fields of the file
Load(mem, st) ==
    IF ~st.exists THEN mem
    ELSE [documents |-> st.documents, metadata |-> st.metadata,
          tfidf_matrix |-> st.tfidf_matrix, is_indexed |-> st.is_indexed]

\* search begins with: if not self.is_indexed: self.load()
LoadIfNotIndexed(mem, st) == IF mem.is_indexed THEN mem ELSE Load(mem, st)

\* a plausible slip: search without the check of is_indexed
NeverRaisesNotIndexed(mem) == FALSE

\* "if not self.is_indexed: raise ValueError(No indexed data found ...)"
RaisesNotIndexed(mem) == ~mem.is_indexed

\* cosine_similarity(query_vec, self.tfidf_matrix).flatten(): one score per row
Similarities(q, matrix) == [k \in 1..Len(matrix.rows) |-> Score(q, matrix.rows[k])]

\* np.argsort(a): the positions of a in ascending order of value, equal values
\* in ascending order of position
ArgSort(a) ==
    LET before(i) == Cardinality({j \in 1..Len(a) : a[j] < a[i] \/ (a[j] = a[i] /\ j < i)})
    IN [p \in 1..Len(a) |-> CHOOSE i \in 1..Len(a) : before(i) = p - 1]

\* a plausible slip: the ascending order is not reversed
BottomIndices(sims, n) == Slice(ArgSort(sims), 0, n)

\* np.argsort(similarities)[::-1][:n_results]
TopIndices(sims, n) == Slice(Reverse(ArgSort(sims)), 0, n)

\* LiteSpecsIndexer.search after the load: the exception raised or the list
\* returned; positions are 1-based here, chunk_index is the 0-based idx
LiteSearch(mem, q, n) ==
    IF RaisesNotIndexed(mem) THEN [raised |-> "ValueError", results |-> << >>]
    ELSE LET sims == Similarities(q, mem.tfidf_matrix)
             hits == SelectSeq(TopIndices(sims, n), LAMBDA i : sims[i] > 0)
         IN IF \E k \in 1..Len(hits) :
                   hits[k] > Len(mem.documents) \/ hits[k] > Len(mem.metadata)
            THEN [raised |-> "IndexError", results |-> << >>]
            ELSE [raised |-> "none",
                  results |-> [k \in 1..Len(hits) |->
                      [content |-> mem.documents[hits[k]],
                       metadata |-> mem.metadata[hits[k]],
                       score |-> sims[hits[k]],
                       chunk_index |-> hits[k] - 1]]]

\* LiteSpecsQuery.__init__: the exception it raises, "none" when the object is built
LiteQueryInit(st) ==
    IF ~st.exists THEN "FileNotFoundError"
    ELSE IF ~Load(FreshMemory, st).is_indexed THEN "ValueError"
    ELSE "none"

\* a plausible slip: the filter is compared with the file's name, not its path
FilterByFileName(f, rs) ==
    IF f = << >> THEN rs ELSE SelectSeq(rs, LAMBDA r : Contains(f, r.metadata.file_name))

\* LiteSpecsQuery.search: [r for r in results if file_filter in r['metadata']['file_path']]
FilterByFile(f, rs) ==
    IF f = << >> THEN rs ELSE SelectSeq(rs, LAMBDA r : Contains(f, r.metadata.file_path))

\* stand-in for the distance ChromaDB reports: small for a high score
Distance(q, doc) == 1 - Score(q, doc)

\* collection.query(query_embeddings, n_results, where): of the entries the where
\* clause {"file_path": {"$contains": f}} admits (all without one), the n_results
\* nearest to the query, nearest first
CollectionQuery(coll, q, n, f) ==
    LET admitted == FilterByFile(f, coll)
        dist == [k \in 1..Len(admitted) |-> Distance(q, admitted[k].document)]
        order == Slice(ArgSort(dist), 0, n)
    IN [k \in 1..Len(order) |->
          [id |-> admitted[order[k]].id,
           document |-> admitted[order[k]].document,
           metadata |-> admitted[order[k]].metadata,
           distance |-> dist[order[k]]]]

\* SpecsQuery.search: the formatted results, relevance_score = 1 - distance
EmbedSearch(coll, q, n, f) ==
    LET found == CollectionQuery(coll, q, n, f)
    IN [k \in 1..Len(found) |->
          [id |-> found[k].id, content |-> found[k].document,
           metadata |-> found[k].metadata, distance |-> found[k].distance,
           score |-> 1 - found[k].distance]]

\* search(query, n_results, file_filter) of the query object of variant v, opened
\* on the index on disk
QuerySearchOutcome(v, st, coll, q, n, f) ==
    IF v = "lite"
    THEN IF LiteQueryInit(st) # "none"
         THEN [raised |-> LiteQueryInit(st), results |-> << >>]
         ELSE LET out == LiteSearch(LoadIfNotIndexed(Load(FreshMemory, st), st), q, n)
              IN [raised |-> out.raised, results |-> FilterByFile(f, out.results)]
    ELSE [raised |-> "none", results |-> EmbedSearch(coll, q, n, f)]

(* --------------------- get_context_for_generation --------------------- *)
HeaderTitle == <<"C", "O", "N", "T", "E", "X", "T",
               " ", "F", "R", "O", "M", " ", "B", "O", "O", "K", "L", "I", "T", "E", " ", "S", "P", "E", "C", "I", "F", "I", "C", "A", "T", "I", "O", "N", "S", ":">>
Rule == [k \in 1..RuleLen |-> "="]

\* "\n".join(parts)
RECURSIVE JoinLines(_)
JoinLines(parts) ==
    IF parts = << >> THEN << >>
    ELSE IF Len(parts) = 1 THEN parts[1]
    ELSE parts[1] \o <<NL>> \o JoinLines(Tail(parts))

\* f"{x:.2f}" of a score, which the stand-in keeps a small natural number
Format2f(x) == Str(x) \o <<".", "0", "0">>

\* the block of one result; the lite variant labels the score Similarity, the
\* embedding variant Relevance
ResultText(v, r) ==
    <<NL>> \o <<"-", "-", "-", " ", "F", "r", "o", "m", " ">> \o r.metadata.file_path \o <<" ", "-", "-", "-">> \o <<NL>>
    \o <<"S", "e", "c", "t", "i", "o", "n", ":", " ">> \o r.metadata.title \o <<NL>>
    \o (IF v = "lite" THEN <<"S", "i", "m", "i", "l", "a", "r", "i", "t", "y", ":", " ">> ELSE <<"R", "e", "l", "e", "v", "a", "n", "c", "e", ":", " ">>) \o Format2f(r.score) \o <<NL>>
    \o <<"C", "o", "n", "t", "e", "n", "t", ":">> \o <<NL>> \o r.content \o <<NL>>

\* what the budget counts: characters (lite), tokens of the encoding (embedding)
SizeOf(v, text) == IF v = "lite" THEN Len(text) ELSE Len(Encode(text))

RECURSIVE ContextLoop(_, _, _, _, _, _)

\* a plausible slip: a result that does not fit is skipped and the loop goes on
SkipOnOverflow(v, rs, k, parts, cur, max) == ContextLoop(v, rs, k + 1, parts, cur, max)

\* "if current + len(result_text) > max_tokens: break"
BreakOnOverflow(v, rs, k, parts, cur, max) == parts

\* the for loop over the results, from result k on: context_parts at its end
ContextLoop(v, rs, k, parts, cur, max) ==
    IF k > Len(rs) THEN parts
    ELSE LET size == SizeOf(v, ResultText(v, rs[k]))
         IN IF cur + size > max
            THEN BreakOnOverflow(v, rs, k, parts, cur, max)
            ELSE ContextLoop(v, rs, k + 1, Append(parts, ResultText(v, rs[k])), cur + size, max)

\* the string returned for the results rs of the search and the budget max
ContextText(v, rs, max) ==
    LET header == <<HeaderTitle, Rule>>
    IN JoinLines(ContextLoop(v, rs, 1, header, SizeOf(v, JoinLines(header)), max))

(* ------------------------- calls of the query side -------------------- *)
\* no call's outcome is held
NoCall ==
    /\ q_pc = "none"
    /\ query = << >>
    /\ n_results = 0
    /\ file_filter = << >>
    /\ max_tokens = 0
    /\ raised = "none"
    /\ results = << >>
    /\ unfiltered = << >>
    /\ context = << >>

\* indexer.search(query, n_results) in the process that holds the indexer (main --query)
IndexerSearch ==
    /\ variant = "lite"
    /\ ix_pc \in {"idle", "returned"}
    /\ q_pc = "none"
    /\ \E q \in Queries, n \in 0..MaxResults :
         LET mem == LoadIfNotIndexed(Memory, store)
             out == LiteSearch(mem, q, n)
         IN /\ documents' = mem.documents
            /\ metadata' = mem.metadata
            /\ tfidf_matrix' = mem.tfidf_matrix
            /\ is_indexed' = mem.is_indexed
            /\ query' = q
            /\ n_results' = n
            /\ raised' = out.raised
            /\ results' = out.results
            /\ unfiltered' = out.results
    /\ q_pc' = "indexer"
    /\ UNCHANGED <<file_filter, max_tokens, context>>
    /\ UNCHANGED <<history, variant, corpus, md_files, file_next, ix_pc, store, collection,
                   reported, succeeded, escaped, runs, last, prev>>

\* LiteSpecsQuery(db_path).search(...) or SpecsQuery(db_path).search(...); ChromaDB
\* may reject n_results = 0
QuerySearch ==
    /\ ix_pc \in {"idle", "returned"}
    /\ q_pc = "none"
    /\ \E q \in Queries, n \in 0..MaxResults, f \in Filters :
       \E rejected \in (IF variant = "embed" /\ n = 0 THEN BOOLEAN ELSE {FALSE}) :
         LET out == QuerySearchOutcome(variant, store, collection, q, n, f)
             all == QuerySearchOutcome(variant, store, collection, q, n, << >>)
         IN /\ query' = q
            /\ n_results' = n
            /\ file_filter' = f
            /\ raised' = (IF rejected THEN "ValueError" ELSE out.raised)
            /\ results' = (IF rejected THEN << >> ELSE out.results)
            /\ unfiltered' = (IF rejected THEN << >> ELSE all.results)
    /\ q_pc' = "query"
    /\ UNCHANGED <<max_tokens, context, varsIX>>

\* get_context_for_generation(query, max_tokens) of the query object
GetContext ==
    /\ ix_pc \in {"idle", "returned"}
    /\ q_pc = "none"
    /\ \E q \in Queries, b \in Budgets :
         LET out == QuerySearchOutcome(variant, store, collection, q, ContextResults, << >>)
         IN /\ query' = q
            /\ max_tokens' = b
            /\ raised' = out.raised
            /\ results' = out.results
            /\ unfiltered' = out.results
            /\ context' = (IF out.raised = "none" THEN ContextText(variant, out.results, b)
                           ELSE << >>)
    /\ n_results' = ContextResults
    /\ q_pc' = "context"
    /\ UNCHANGED <<file_filter, varsIX>>

\* the caller has taken the outcome of the call
Forget ==
    /\ q_pc # "none"
    /\ q_pc' = "none"
    /\ query' = << >>
    /\ n_results' = 0
    /\ file_filter' = << >>
    /\ max_tokens' = 0
    /\ raised' = "none"
    /\ results' = << >>
    /\ unfiltered' = << >>
    /\ context' = << >>
    /\ UNCHANGED varsIX

(* ----------------------- properties of the indexers ------------------- *)
\* the elements of a sequence
Range(q) == {q[k] : k \in 1..Len(q)}

\* the entries of the files of `files` (from position k on) that were indexed
\* successfully in the latest run, in the order of the run
RECURSIVE EntriesOfSucceeded(_, _)
EntriesOfSucceeded(files, k) ==
    IF k > Len(files) THEN << >>
    ELSE (IF files[k] \in succeeded
          THEN FileEntries(variant, files[k], corpus[files[k]].text) ELSE << >>)
         \o EntriesOfSucceeded(files, k + 1)

\* the entries of the store on disk (none when there is no file)
StoreEntries ==
    IF store.exists THEN EntriesOf("lite", store.documents, store.metadata, << >>) ELSE << >>

\* C5: once index_all has returned, the index, and in the lite variant the store
\* on disk, hold exactly the chunks of the files indexed successfully in that run.
C5_IndexHoldsLatestRunOnly ==
    ix_pc = "returned" =>
        /\ IndexEntries = EntriesOfSucceeded(md_files, 1)
        /\ variant = "lite" => StoreEntries = EntriesOfSucceeded(md_files, 1)

\* C6: index_all on a corpus without markdown files changes nothing of the index
\* state (chunks, metadata, vectors, persisted collection or store) and raises nothing.
C6_NoFilesIsNoOp ==
    [][IndexAllNoFiles =>
          /\ UNCHANGED <<documents, metadata, tfidf_matrix, is_indexed, store, collection>>
          /\ ~escaped']_vars

\* C6 as amended: index_all on a corpus without markdown files raises nothing, reports
\* no count and adds no chunk, but it discards the chunks the index held; the lite
\* variant's TF-IDF matrix, is_indexed flag and store on disk stay as they were.
C6_NoFilesClearsChunks ==
    [][IndexAllNoFiles =>
          /\ IndexEntries' = << >>
          /\ ~escaped'
          /\ reported' = -1
          /\ UNCHANGED <<tfidf_matrix, is_indexed, store>>]_vars

\* index_all has just returned from a corpus without files, and the run before it
\* had left chunks in the index
C6_Witness ==
    /\ ix_pc = "returned"
    /\ runs >= 2
    /\ Present(corpus) = {}
    /\ prev.entries # << >>
    /\ IndexEntries = << >>

\* C7: no exception leaves index_all, and every file that does not fail has all
\* its chunks in the index: during the loop the files handled so far (nothing is
\* rolled back by a later failure), at the return every file found.
C7_FailuresDoNotAbort ==
    ix_pc \in {"files", "returned"} =>
        /\ ~escaped
        /\ ix_pc = "returned" => file_next = Len(md_files) + 1
        /\ \A k \in 1..Len(md_files) :
              (k < file_next /\ corpus[md_files[k]].kind = "ok") =>
                  Range(FileEntries(variant, md_files[k], corpus[md_files[k]].text))
                      \subseteq Range(IndexEntries)

\* a finished run whose first file failed and whose second file has chunks
C7_Witness ==
    /\ ix_pc = "returned"
    /\ Len(md_files) = 2
    /\ corpus[md_files[1]].kind = "bad"
    /\ corpus[md_files[2]].kind = "ok"
    /\ Len(IndexEntries) >= 2

\* C8: the count reported at completion is the number of files indexed successfully
\* in that run.  Stated for runs without empty files, where which files succeed
\* does not depend on the ChromaDB version.
C8_ReportsSucceededCount ==
    (/\ ix_pc = "returned"
     /\ reported # -1
     /\ \A p \in Paths : corpus[p].kind = "ok" => corpus[p].text # << >>) => reported = Cardinality(succeeded)

\* C8 as amended: the count reported at completion is the number of markdown files
\* found in that run, failed ones included; no count is reported when none is found.
C8_ReportsFilesFound ==
    ix_pc = "returned" =>
        IF Present(corpus) = {} THEN reported = -1
        ELSE reported = Cardinality(Present(corpus))

\* a finished run over two files of which one failed
C8_Witness ==
    /\ ix_pc = "returned"
    /\ reported = 2
    /\ Cardinality(succeeded) = 1
    /\ \E p \in Paths : corpus[p].kind = "bad"

\* id and metadata of the entries, without their order
IdsAndMetadata(entries) == {[id |-> e.id, metadata |-> e.metadata] : e \in Range(entries)}

\* C9: a second index_all on the corpus of the run before it leaves the same number
\* of chunks, the same ids and the same metadata per chunk.
C9_ReindexIdempotent ==
    (ix_pc = "returned" /\ runs >= 2 /\ prev.corpus = corpus) =>
        /\ Len(IndexEntries) = Len(prev.entries)
        /\ IdsAndMetadata(IndexEntries) = IdsAndMetadata(prev.entries)

\* two runs in a row on the same corpus of two files with chunks
C9_Witness ==
    /\ ix_pc = "returned"
    /\ runs >= 2
    /\ prev.corpus = corpus
    /\ Cardinality(succeeded) = 2
    /\ Len(IndexEntries) >= 3

\* the entries of the index that belong to the file at `path`, in index order
EntriesOfFile(path) == SelectSeq(IndexEntries, LAMBDA e : e.metadata.file_path = path)

\* C10: every chunk's id is {relative_path}_{chunk_index}; the chunk indices of one
\* file are 0..n-1 in sequence order with chunk_total = n, n the file's chunk
\* count; all ids of the index are pairwise distinct.
C10_ChunkIdsUnique ==
    LET E == IndexEntries
    IN /\ \A k \in 1..Len(E) :
             E[k].id = E[k].metadata.file_path \o <<"_">> \o Str(E[k].metadata.chunk_index)
       /\ \A j, k \in 1..Len(E) : j # k => E[j].id # E[k].id
       /\ \A p \in Paths :
             LET F == EntriesOfFile(p)
             IN /\ \A k \in 1..Len(F) :
                      F[k].metadata.chunk_index = k - 1 /\ F[k].metadata.chunk_total = Len(F)
                /\ (ix_pc \in {"files", "returned"} /\ F # << >>) =>
                      Len(F) = Len(FileChunks(variant, corpus[p].text))

\* two files that yield 2 and 3 chunks are indexed: 5 entries
C10_Witness ==
    /\ ix_pc = "returned"
    /\ \E p, q \in Paths : Len(EntriesOfFile(p)) = 2 /\ Len(EntriesOfFile(q)) = 3
    /\ Len(IndexEntries) = 5
    /\ Cardinality({e.id : e \in Range(IndexEntries)}) = 5

(* ------------------ properties of searches and contexts --------------- *)
\* the blocks of the candidates of the latest context call, in rank order
CandidateBlocks == [k \in 1..Len(results) |-> ResultText(variant, results[k])]

\* the running size after the header and the first m candidate blocks
RECURSIVE RunningSize(_)
RunningSize(m) ==
    IF m = 0 THEN SizeOf(variant, JoinLines(<<HeaderTitle, Rule>>))
    ELSE RunningSize(m - 1) + SizeOf(variant, CandidateBlocks[m])

\* the length of the longest prefix of the candidates whose running size stays
\* within max_tokens
FittingPrefix ==
    LET ok == {m \in 0..Len(results) : \A j \in 1..m : RunningSize(j) <= max_tokens}
    IN CHOOSE m \in ok : \A j \in ok : j <= m

\* C11: the blocks of a returned context are the longest prefix of the (at most
\* 10) ranked candidates whose running size, header included, stays within the
\* budget, in rank order; nothing after the first candidate that does not fit
C11_ContextIsLongestFittingPrefix ==
    (q_pc = "context" /\ raised = "none") =>
        /\ Len(results) <= ContextResults
        /\ context = JoinLines(<<HeaderTitle, Rule>> \o SubSeq(CandidateBlocks, 1, FittingPrefix))

\* a context was returned that stops at a candidate although a later one would fit
C11_Witness ==
    /\ q_pc = "context"
    /\ raised = "none"
    /\ context = JoinLines(<<HeaderTitle, Rule>> \o SubSeq(CandidateBlocks, 1, FittingPrefix))
    /\ \E j \in (FittingPrefix + 2)..Len(results) :
          RunningSize(FittingPrefix) + SizeOf(variant, CandidateBlocks[j]) <= max_tokens

\* C12: the size of the returned context (characters in the lite variant, tokens
\* in the embedding variant) is at most the budget, for every budget >= 0
C12_ContextWithinBudget ==
    (q_pc = "context" /\ raised = "none") => SizeOf(variant, context) <= max_tokens

\* the chunks of the index the latest search ran on: the indexer's own lists
\* (after its load), the lists on disk for LiteSpecsQuery, the collection
SearchedDocuments ==
    IF variant = "lite"
    THEN (IF q_pc = "indexer" THEN documents ELSE store.documents)
    ELSE [k \in 1..Len(collection) |-> collection[k].document]

\* the positions in SearchedDocuments of the chunks a result list names
PositionsIn(rs) ==
    IF variant = "lite" THEN {rs[k].chunk_index + 1 : k \in 1..Len(rs)}
    ELSE {p \in 1..Len(collection) : \E k \in 1..Len(rs) : rs[k].id = collection[p].id}

\* rs holds chunks of the searched index with their scores against the query
HoldsSearchedChunks(rs) ==
    /\ PositionsIn(rs) \subseteq 1..Len(SearchedDocuments)
    /\ Cardinality(PositionsIn(rs)) = Len(rs)
    /\ \A k \in 1..Len(rs) : rs[k].score = Score(query, rs[k].content)
    /\ \A k \in 1..Len(rs) : rs[k].content \in Range(SearchedDocuments)

\* C13: a search without file filter returns at most max_results results, in
\* non-increasing order of score, and they are the max_results highest-scoring
\* chunks of the index (in the lite variant without those of similarity 0)
C13_TopResultsInOrder ==
    (q_pc \in {"indexer", "query"} /\ file_filter = << >> /\ raised = "none") =>
        LET returned == PositionsIn(results)
            others == (1..Len(SearchedDocuments)) \ returned
            score(p) == Score(query, SearchedDocuments[p])
        IN /\ Len(results) <= n_results
           /\ \A k \in 1..(Len(results) - 1) : results[k].score >= results[k + 1].score
           /\ HoldsSearchedChunks(results)
           /\ \A p \in returned, o \in others : score(o) <= score(p)
           /\ Len(results) < n_results =>
                 \A o \in others : variant = "lite" /\ score(o) = 0
           /\ variant = "lite" => \A p \in returned : score(p) > 0

\* a search returned max_results = 2 results of different scores and left a chunk out
C13_Witness ==
    /\ q_pc \in {"indexer", "query"}
    /\ file_filter = << >>
    /\ raised = "none"
    /\ n_results = 2
    /\ Len(results) = 2
    /\ results[1].score > results[2].score
    /\ Len(SearchedDocuments) > 2

\* the entries of list rs whose file_path contains the filter of the latest
\* search, in the order of rs
MatchingFilter(rs) ==
    SelectSeq(rs, LAMBDA r : \E a \in 0..(Len(r.metadata.file_path) - Len(file_filter)) :
        SubSeq(r.metadata.file_path, a + 1, a + Len(file_filter)) = file_filter)

\* C14: a search with a non-empty file filter returns exactly the entries of the
\* unfiltered top-max_results list whose file_path contains the filter, in their
\* rank order: the filter is applied after the top-K retrieval
C14_FilterAfterTopK ==
    (q_pc = "query" /\ file_filter # << >> /\ raised = "none") =>
        results = MatchingFilter(unfiltered)

\* C14 as the code has it: LiteSpecsQuery filters the top-K list afterwards;
\* SpecsQuery hands the filter to the collection's query, so its results are the
\* max_results best of the chunks the filter admits, best first
C14_FilterPerVariant ==
    (q_pc = "query" /\ file_filter # << >> /\ raised = "none") =>
        IF variant = "lite" THEN results = MatchingFilter(unfiltered)
        ELSE LET admitted == {p \in 1..Len(collection) :
                                 MatchingFilter(<<collection[p]>>) # << >>}
                 returned == PositionsIn(results)
                 score(p) == Score(query, collection[p].document)
             IN /\ HoldsSearchedChunks(results)
                /\ returned \subseteq admitted
                /\ Len(results) = Min(n_results, Cardinality(admitted))
                /\ \A k \in 1..(Len(results) - 1) : results[k].score >= results[k + 1].score
                /\ \A p \in returned, o \in admitted \ returned : score(o) <= score(p)

\* LiteSpecsQuery returned some, not all, of the unfiltered top-K list
C14_Witness ==
    /\ q_pc = "query"
    /\ variant = "lite"
    /\ file_filter # << >>
    /\ raised = "none"
    /\ results # << >>
    /\ Len(results) < Len(unfiltered)
    /\ results = MatchingFilter(unfiltered)

\* the lite index the latest search ran on: is_indexed and the TF-IDF matrix of
\* the indexer (after its load), or of the store LiteSpecsQuery opens
SearchedIsIndexed == IF q_pc = "indexer" THEN is_indexed ELSE store.is_indexed
SearchedMatrix == IF q_pc = "indexer" THEN tfidf_matrix ELSE store.tfidf_matrix

\* a search has ended whose outcome does not hang on how ChromaDB takes n_results = 0
SearchEnded == q_pc \in {"indexer", "query"} /\ ~(variant = "embed" /\ n_results = 0)

C16_EmptyQueryOrZeroResults ==
    (/\ SearchEnded
     /\ query = << >> \/ n_results = 0
     /\ Len(SearchedDocuments) >= 1
     /\ variant = "lite" => SearchedIsIndexed)
    => (raised = "none" /\ results = << >>)

\* C17: both chunking policies return zero chunks for the empty input text:
\* chunk_content("") emits no window of tokens and packs no paragraph
C17_EmptyInputNoChunks ==
    content = << >> => (tw_chunks = << >> /\ pp_chunks = << >>)

\* both chunkers have returned for the empty text
C17_Witness ==
    /\ content = << >>
    /\ tokens = << >>
    /\ tw_pc = "done"
    /\ pp_pc = "done"
    /\ tw_chunks = << >>
    /\ pp_chunks = << >>

\* C18: between calls of index_all, save, load and search on a LiteSpecsIndexer,
\* is_indexed implies that the TF-IDF matrix has one row per entry of documents
\* (the vectors of these documents) and that documents and metadata have the same
\* length; so no search reads them out of range
C18_MatrixRowsMatchDocuments ==
    (variant = "lite" /\ ix_pc \in {"idle", "returned"}) =>
        /\ is_indexed =>
              /\ ~tfidf_matrix.none
              /\ Len(tfidf_matrix.rows) = Len(documents)
              /\ tfidf_matrix.rows = documents
              /\ Len(documents) = Len(metadata)
        /\ raised # "IndexError"

(* ============================ specifications ========================== *)
\* the token-windowed chunker is not running
IdleTW ==
    /\ tokens = << >>
    /\ tw_size = 1
    /\ tw_overlap = 0
    /\ tw_i = 0
    /\ tw_chunks = << >>
    /\ tw_pc = "idle"

\* the paragraph-packing chunker is not running
IdlePP ==
    /\ content = << >>
    /\ pp_size = MinPackSize
    /\ paragraphs = << >>
    /\ pp_next = 1
    /\ current_chunk = << >>
    /\ pp_chunks = << >>
    /\ pp_via = << >>
    /\ pp_pc = "idle"

\* no indexer is running
IdleIX == InitIX /\ variant = "lite" /\ history = FALSE /\ NoCall

NextTW ==
    \/ TokenWindowStep /\ UNCHANGED <<varsPP, varsIX, varsQ>>
    \/ TokenWindowReturn /\ UNCHANGED <<varsPP, varsIX, varsQ>>

InitTokenWindow == InitTW /\ IdlePP /\ IdleIX

SpecTokenWindow == InitTokenWindow /\ [][NextTW]_vars

NextPP ==
    \/ PackParagraph /\ UNCHANGED <<varsTW, varsIX, varsQ>>
    \/ FlushAndStart /\ UNCHANGED <<varsTW, varsIX, varsQ>>
    \/ SplitOversized /\ UNCHANGED <<varsTW, varsIX, varsQ>>
    \/ PackReturn /\ UNCHANGED <<varsTW, varsIX, varsQ>>

InitParagraphPack == InitPP /\ IdleTW /\ IdleIX

SpecParagraphPack == InitParagraphPack /\ [][NextPP]_vars

\* both chunkers on the same short text
InitChunkers ==
    /\ InitPP
    /\ Len(content) <= MaxInputLen
    /\ tokens = Encode(content)
    /\ tw_size \in 1..MaxChunkTokens
    /\ tw_overlap \in 0..(tw_size - 1)
    /\ tw_i = 0
    /\ tw_chunks = << >>
    /\ tw_pc = "loop"
    /\ IdleIX

NextChunkers ==
    \/ TokenWindowStep /\ UNCHANGED <<varsPP, varsIX, varsQ>>
    \/ TokenWindowReturn /\ UNCHANGED <<varsPP, varsIX, varsQ>>
    \/ PackParagraph /\ UNCHANGED <<varsTW, varsIX, varsQ>>
    \/ FlushAndStart /\ UNCHANGED <<varsTW, varsIX, varsQ>>
    \/ SplitOversized /\ UNCHANGED <<varsTW, varsIX, varsQ>>
    \/ PackReturn /\ UNCHANGED <<varsTW, varsIX, varsQ>>

SpecChunkers == InitChunkers /\ [][NextChunkers]_vars

Init == InitIX /\ history = TRUE /\ NoCall /\ IdleTW /\ IdlePP

Next ==
    \/ IndexAllNoFiles /\ UNCHANGED <<varsTW, varsPP, varsQ>>
    \/ IndexAllBegin /\ UNCHANGED <<varsTW, varsPP, varsQ>>
    \/ IndexFileUnreadable /\ UNCHANGED <<varsTW, varsPP, varsQ>>
    \/ IndexFileLite /\ UNCHANGED <<varsTW, varsPP, varsQ>>
    \/ IndexFileEmbed /\ UNCHANGED <<varsTW, varsPP, varsQ>>
    \/ IndexAllFinish /\ UNCHANGED <<varsTW, varsPP, varsQ>>
    \/ NewProcess /\ UNCHANGED <<varsTW, varsPP, varsQ>>

Spec == Init /\ [][Next]_vars

\* searches and contexts between the runs of index_all; the run history is not kept
InitQuery == InitIX /\ history = FALSE /\ NoCall /\ IdleTW /\ IdlePP

NextQuery ==
    \/ IndexAllNoFiles /\ q_pc = "none" /\ UNCHANGED <<varsTW, varsPP, varsQ>>
    \/ IndexAllBegin /\ q_pc = "none" /\ UNCHANGED <<varsTW, varsPP, varsQ>>
    \/ IndexFileUnreadable /\ UNCHANGED <<varsTW, varsPP, varsQ>>
    \/ IndexFileLite /\ UNCHANGED <<varsTW, varsPP, varsQ>>
    \/ IndexFileEmbed /\ UNCHANGED <<varsTW, varsPP, varsQ>>
    \/ IndexAllFinish /\ UNCHANGED <<varsTW, varsPP, varsQ>>
    \/ NewProcess /\ q_pc = "none" /\ UNCHANGED <<varsTW, varsPP, varsQ>>
    \/ IndexerSearch /\ UNCHANGED <<varsTW, varsPP>>
    \/ QuerySearch /\ UNCHANGED <<varsTW, varsPP>>
    \/ GetContext /\ UNCHANGED <<varsTW, varsPP>>
    \/ Forget /\ UNCHANGED <<varsTW, varsPP>>

SpecQuery == InitQuery /\ [][NextQuery]_vars

====
